---- MODULE Spec2Model ----
(***************************************************************************)
(* nitrate: zero-copy entrypoint support for an on-chain program.          *)
(*                                                                         *)
(* The input buffer is a byte-addressed memory; an address is an offset    *)
(* from the `input` pointer.  `mem` holds the non-zero bytes only (a byte  *)
(* that is absent from its domain is zero), so that the 10 KiB growth      *)
(* reserve behind every account costs nothing in the state.                *)
(* Unsigned integers are little-endian byte strings, as on the target.     *)
(***************************************************************************)
EXTENDS Integers, Sequences, FiniteSets, Bags, TLC

VARIABLES
    host,            \* what the runtime serialized (never changes; the reference)
    mem,             \* the input buffer: address -> non-zero byte
    accounts,        \* the [MaybeUninit<AccountInfo>; MAX_ACCOUNTS] array: index -> raw
    pc,              \* "entry" | "scan" | "user" | "panic"
    offset,          \* deserialize: scan offset
    i,               \* deserialize: slot index (first loop, then second loop)
    total_accounts,  \* deserialize: account count read from the buffer
    count,           \* deserialize: number of handles produced
    ret,             \* deserialize's result: program id, count, instruction data
    guards,          \* the live Ref / RefMut values (a bag)
    last,            \* the last call made by the instruction handler, and its result
    built            \* what the last call built: the records of a host call, a context

vars ==
    <<host, mem, accounts, pc, offset, i, total_accounts, count, ret, guards, last, built>>

----------------------------------------------------------------------------
(* Bounds of the model.                                                    *)

\* Largest number of account slots the runtime serializes.
MaxSlots == 3
\* Largest instruction payload, in bytes.
MaxPayload == 1
\* Largest MAX_ACCOUNTS the entrypoint is instantiated with.
MaxMaxAccounts == 3
\* Most guards the handler holds at a time where it also reallocs.
MaxHeld == 1
MaxDeclared == 3
MaxConflict == 2

----------------------------------------------------------------------------
(* Constants of the program and of its host.                               *)

NON_DUP_MARKER == 255
MAX_PERMITTED_DATA_INCREASE == 10240
BPF_ALIGN_OF_U128 == 8

\* std::mem::size_of::<Account>() and the offsets of its #[repr(C)] fields.
SizeOfAccount == 88
OffBorrowState == 0
OffIsSigner == 1
OffIsWritable == 2
OffExecutable == 3
OffOriginalDataLen == 4
OffKey == 8
OffOwner == 40
OffLamports == 72
OffDataLen == 80
SizeOfPubkey == 32
SizeOfU64 == 8

\* A slot of the handle array that was never written.
Uninit == -1

----------------------------------------------------------------------------
(* Byte memory.                                                            *)

Read8(m, a) == IF a \in DOMAIN m THEN m[a] ELSE 0

Write8(m, a, b) ==
    IF b = 0
    THEN [x \in DOMAIN m \ {a} |-> m[x]]
    ELSE [x \in DOMAIN m \cup {a} |-> IF x = a THEN b ELSE m[x]]

RECURSIVE ReadLE(_, _, _)
\* An n-byte little-endian unsigned integer at address a.  No buffer of the
\* model is 2^30 bytes long: every value from 2^30 up is read as 2^30.
ReadLE(m, a, n) ==
    IF n = 0 THEN 0
    ELSE LET hi == ReadLE(m, a + 1, n - 1)
         IN  IF hi >= 4194304 THEN 1073741824 ELSE Read8(m, a) + 256 * hi

RECURSIVE LEBytes(_, _)
\* to_le_bytes: the n little-endian bytes of v.
LEBytes(v, n) == IF n = 0 THEN <<>> ELSE <<v % 256>> \o LEBytes(v \div 256, n - 1)

ReadBytes(m, a, n) == [k \in 1..n |-> Read8(m, a + k - 1)]

\* Store the byte string bs at address a.
WriteBytes(m, a, bs) ==
    LET span == {a + k - 1 : k \in 1..Len(bs)}
        keep == {x \in DOMAIN m : x \notin span}
        set  == {a + k - 1 : k \in {j \in 1..Len(bs) : bs[j] # 0}}
    IN  [x \in keep \cup set |-> IF x \in set THEN bs[x - a + 1] ELSE m[x]]

WriteLE(m, a, n, v) == WriteBytes(m, a, LEBytes(v, n))

\* memset(a, 0, n)
ZeroRange(m, a, n) == [x \in {y \in DOMAIN m : y < a \/ y >= a + n} |-> m[x]]

----------------------------------------------------------------------------
(* The Account header, read in place through a raw pointer.                *)

BorrowState(m, raw) == Read8(m, raw + OffBorrowState)
IsSigner(m, raw) == Read8(m, raw + OffIsSigner) # 0
IsWritable(m, raw) == Read8(m, raw + OffIsWritable) # 0
Executable(m, raw) == Read8(m, raw + OffExecutable) # 0
\* Mutant: the length the growth is measured from is the current one.
OriginalDataLen_Current(m, raw) == ReadLE(m, raw + OffDataLen, SizeOfU64)

OriginalDataLen(m, raw) == ReadLE(m, raw + OffOriginalDataLen, 4)
Key(m, raw) == ReadBytes(m, raw + OffKey, SizeOfPubkey)
Owner(m, raw) == ReadBytes(m, raw + OffOwner, SizeOfPubkey)
Lamports(m, raw) == ReadLE(m, raw + OffLamports, SizeOfU64)
DataLen(m, raw) == ReadLE(m, raw + OffDataLen, SizeOfU64)
DataPtr(raw) == raw + SizeOfAccount
Data(m, raw) == ReadBytes(m, DataPtr(raw), DataLen(m, raw))

----------------------------------------------------------------------------
(* The runtime's side: the buffer it serializes for one invocation.        *)

\* A 32-byte address whose first byte is n.
Pubkey(n) == [k \in 1..SizeOfPubkey |-> IF k = 1 THEN n ELSE 0]

\* Mutant: an aligned address is moved to the next multiple as well.
AlignOffset_Always(a, n) == n - (a % n)

\* ptr.align_offset(n): the distance to the next multiple of n.
AlignOffset(a, n) == (n - (a % n)) % n

\* The bytes the account in slot k starts with.
SlotData(k, len) == [j \in 1..len |-> 1 + ((k + j) % 5)]

\* The size of a serialized slot.
SlotSize(s) ==
    IF s.dup # Uninit THEN 8
    ELSE LET e == SizeOfAccount + s.data_len + MAX_PERMITTED_DATA_INCREASE
         IN  e + AlignOffset(e, BPF_ALIGN_OF_U128) + SizeOfU64

RECURSIVE SlotOffset(_, _)
\* Where slot k (0-based) of the host's list starts.
SlotOffset(h, k) ==
    IF k = 0 THEN SizeOfU64 ELSE SlotOffset(h, k - 1) + SlotSize(h.slots[k])

\* The address of the account in slot k: its own, unless the caller passed
\* an address of its choice for it.
SlotKey(s, k) == IF "key" \in DOMAIN s THEN s.key ELSE Pubkey(k + 1)

\* The header and data of slot k, a non-duplicate, at address o.
SerializeAccount(m, o, k, s) ==
    LET m1 == Write8(m, o + OffBorrowState, NON_DUP_MARKER)
        m2 == Write8(m1, o + OffIsSigner, s.is_signer)
        m3 == Write8(m2, o + OffIsWritable, s.is_writable)
        m4 == Write8(m3, o + OffExecutable, s.executable)
        m5 == WriteLE(m4, o + OffOriginalDataLen, 4, s.data_len)
        m6 == WriteBytes(m5, o + OffKey, SlotKey(s, k))
        m7 == WriteBytes(m6, o + OffOwner, Pubkey(100 + k))
        m8 == WriteLE(m7, o + OffLamports, SizeOfU64, 1000 + k)
        m9 == WriteLE(m8, o + OffDataLen, SizeOfU64, s.data_len)
        mA == WriteBytes(m9, o + SizeOfAccount, SlotData(k, s.data_len))
    IN  WriteLE(mA, o + SlotSize(s) - SizeOfU64, SizeOfU64, 77)

RECURSIVE SerializeSlots(_, _, _)
\* The first n slots of h, serialized into m.
SerializeSlots(h, m, n) ==
    IF n = 0 THEN m
    ELSE LET p == SerializeSlots(h, m, n - 1)
             o == SlotOffset(h, n - 1)
             s == h.slots[n]
         IN  IF s.dup # Uninit THEN Write8(p, o, s.dup)
             ELSE SerializeAccount(p, o, n - 1, s)

PayloadLenOffset(h) == SlotOffset(h, Len(h.slots))
PayloadOffset(h) == PayloadLenOffset(h) + SizeOfU64
ProgramIdOffset(h) == PayloadOffset(h) + Len(h.payload)
BufferEnd(h) == ProgramIdOffset(h) + SizeOfPubkey

Serialize(h) ==
    LET m0 == WriteLE(<<>>, 0, SizeOfU64, Len(h.slots))
        m1 == SerializeSlots(h, m0, Len(h.slots))
        m2 == WriteLE(m1, PayloadLenOffset(h), SizeOfU64, Len(h.payload))
        m3 == WriteBytes(m2, PayloadOffset(h), h.payload)
    IN  WriteBytes(m3, ProgramIdOffset(h), Pubkey(200))

\* The slot whose record slot k refers to (itself, unless a duplicate).
RecordSlot(h, k) == IF h.slots[k + 1].dup # Uninit THEN h.slots[k + 1].dup ELSE k
RecordAddr(h, k) == SlotOffset(h, RecordSlot(h, k))

----------------------------------------------------------------------------
(* The buffers the model is run on.                                        *)

DataLens == {0, 3, 20}

NonDupSlot(len, sg, wr) ==
    [dup |-> Uninit, data_len |-> len, is_signer |-> sg, is_writable |-> wr,
     executable |-> 0]
DupSlot(j) ==
    [dup |-> j, data_len |-> 0, is_signer |-> 0, is_writable |-> 0, executable |-> 0]

\* The slots the runtime can put at position k (0-based): a new account, or
\* a duplicate of the first occurrence of an earlier account.
SlotsAt(pre, k) ==
    {NonDupSlot(len, k % 2, (k + 1) % 2) : len \in DataLens}
        \cup {DupSlot(j) : j \in {x \in 0..(k - 1) : pre[x + 1].dup = Uninit}}

RECURSIVE SlotLists(_)
SlotLists(n) ==
    IF n = 0 THEN {<<>>}
    ELSE UNION {{Append(pre, s) : s \in SlotsAt(pre, n - 1)} : pre \in SlotLists(n - 1)}

Payloads == UNION {[1..n -> {9}] : n \in 0..MaxPayload}

Hosts ==
    {[slots |-> sl, payload |-> p, MAX_ACCOUNTS |-> mx] :
        sl \in UNION {SlotLists(n) : n \in 0..MaxSlots},
        p \in Payloads,
        mx \in 0..MaxMaxAccounts}

----------------------------------------------------------------------------
(* State at entry: `entrypoint(input)` has been called by the runtime.     *)

NoCall == [op |-> "none", h |-> Uninit, arg |-> <<>>, res |-> "Ok"]
Nothing == [kind |-> "none"]
NoRet == [program_id |-> Uninit, count |-> 0, data |-> Uninit, data_len |-> 0]

InitOn(h) ==
    /\ host = h
    /\ mem = Serialize(h)
    /\ accounts = [k \in 0..(h.MAX_ACCOUNTS - 1) |-> Uninit]
    /\ pc = "entry"
    /\ offset = 0
    /\ i = 0
    /\ total_accounts = 0
    /\ count = 0
    /\ ret = NoRet
    /\ guards = EmptyBag
    /\ last = NoCall
    /\ built = Nothing

InitDeser == \E h \in Hosts : InitOn(h)

----------------------------------------------------------------------------
(* deserialize                                                             *)

\* Mutant: the 8 bytes of the rent epoch are not skipped.
SkipAccount_NoRentEpoch(m, o) ==
    LET o1 == o + SizeOfAccount
        o2 == o1 + DataLen(m, o)
        o3 == o2 + MAX_PERMITTED_DATA_INCREASE
    IN  o3 + AlignOffset(o3, BPF_ALIGN_OF_U128)

\* The scan offset after a non-duplicate slot that starts at o.
SkipAccount(m, o) ==
    LET o1 == o + SizeOfAccount
        o2 == o1 + DataLen(m, o)
        o3 == o2 + MAX_PERMITTED_DATA_INCREASE
        o4 == o3 + AlignOffset(o3, BPF_ALIGN_OF_U128)
    IN  o4 + SizeOfU64

\* The scan offset after a duplicate slot that starts at o.
SkipDuplicate(o) == o + 8

\* Mutant: the second loop skips the header and the data, not the growth
\* reserve, the padding and the rent epoch behind them.
SkipRemainingAccount_NoReserve(m, o) == o + SizeOfAccount + DataLen(m, o)

\* The same two, as the second loop (lines 92-105) computes them.
SkipRemainingAccount(m, o) ==
    LET o1 == o + SizeOfAccount
        o2 == o1 + DataLen(m, o)
        o3 == o2 + MAX_PERMITTED_DATA_INCREASE
        o4 == o3 + AlignOffset(o3, BPF_ALIGN_OF_U128)
    IN  o4 + SizeOfU64

SkipRemainingDuplicate(o) == o + 8

\* count: the number of handles to produce.
Processed(total, max) == IF total <= max THEN total ELSE max

\* Mutant: the marker byte is left where the borrow state is read.
ResetBorrowState_Keep(m, raw) == m

\* Borrow state written when a record is first seen.
ResetBorrowState(m, raw) == Write8(m, raw + OffBorrowState, 0)

\* Mutant: the handle of a duplicate slot points at the slot itself.
CloneOriginal_InPlace(acc, d) == offset

\* Mutant: the marker is taken as 1-based, the slot after the original is copied.
CloneOriginal_NextSlot(acc, d) == IF d + 1 \in DOMAIN acc THEN acc[d + 1] ELSE Uninit

\* The handle stored for the duplicate slot whose marker is d.
\* (A marker that is no index of the array reads memory that holds no handle.)
CloneOriginal(acc, d) == IF d \in DOMAIN acc THEN acc[d] ELSE Uninit

DeserUnchanged == UNCHANGED <<host, guards, last, built>>

\* Lines 38-53: read the account count.
DeserializeEnter ==
    /\ pc = "entry"
    /\ total_accounts' = ReadLE(mem, 0, SizeOfU64)
    /\ count' = Processed(ReadLE(mem, 0, SizeOfU64), host.MAX_ACCOUNTS)
    /\ offset' = SizeOfU64
    /\ i' = 0
    /\ pc' = "scan"
    /\ UNCHANGED <<mem, accounts, ret>>
    /\ DeserUnchanged

\* First loop, a non-duplicate slot: reset its borrow state, store the handle.
FirstLoopAccount ==
    /\ pc = "scan"
    /\ i < count
    /\ Read8(mem, offset) = NON_DUP_MARKER
    /\ offset' = SkipAccount(mem, offset)
    /\ mem' = ResetBorrowState(mem, offset)
    /\ accounts' = [accounts EXCEPT ![i] = offset]
    /\ i' = i + 1
    /\ UNCHANGED <<pc, total_accounts, count, ret>>
    /\ DeserUnchanged

\* First loop, a duplicate slot: copy the handle of the original.
FirstLoopDuplicate ==
    /\ pc = "scan"
    /\ i < count
    /\ Read8(mem, offset) # NON_DUP_MARKER
    /\ offset' = SkipDuplicate(offset)
    /\ accounts' = [accounts EXCEPT ![i] = CloneOriginal(accounts, Read8(mem, offset))]
    /\ i' = i + 1
    /\ UNCHANGED <<mem, pc, total_accounts, count, ret>>
    /\ DeserUnchanged

\* Second loop, a non-duplicate slot beyond MAX_ACCOUNTS: only skip it.
SecondLoopAccount ==
    /\ pc = "scan"
    /\ i >= count
    /\ i < total_accounts
    /\ Read8(mem, offset) = NON_DUP_MARKER
    /\ offset' = SkipRemainingAccount(mem, offset)
    /\ i' = i + 1
    /\ UNCHANGED <<mem, accounts, pc, total_accounts, count, ret>>
    /\ DeserUnchanged

\* Second loop, a duplicate slot beyond MAX_ACCOUNTS.
SecondLoopDuplicate ==
    /\ pc = "scan"
    /\ i >= count
    /\ i < total_accounts
    /\ Read8(mem, offset) # NON_DUP_MARKER
    /\ offset' = SkipRemainingDuplicate(offset)
    /\ i' = i + 1
    /\ UNCHANGED <<mem, accounts, pc, total_accounts, count, ret>>
    /\ DeserUnchanged

\* Lines 107-118: the instruction data and the program id; the entrypoint
\* then calls the instruction handler with accounts[0..count].
DeserializeReturn ==
    /\ pc = "scan"
    /\ i >= count
    /\ i >= total_accounts
    /\ LET len == ReadLE(mem, offset, SizeOfU64)
       IN  ret' = [program_id |-> offset + SizeOfU64 + len,
                   count |-> count,
                   data |-> offset + SizeOfU64,
                   data_len |-> len]
    /\ offset' = offset + SizeOfU64 + ReadLE(mem, offset, SizeOfU64)
    /\ pc' = "user"
    /\ UNCHANGED <<mem, accounts, i, total_accounts, count>>
    /\ DeserUnchanged

RECURSIVE Walk(_, _, _, _, _)
\* The offset the two loops reach from offset o at slot k, for a buffer of
\* `total` slots of which the first cnt get a handle.
Walk(m, o, k, total, cnt) ==
    IF k >= total THEN o
    ELSE IF Read8(m, o) = NON_DUP_MARKER
         THEN Walk(m, IF k < cnt THEN SkipAccount(m, o) ELSE SkipRemainingAccount(m, o),
                   k + 1, total, cnt)
         ELSE Walk(m, IF k < cnt THEN SkipDuplicate(o) ELSE SkipRemainingDuplicate(o),
                   k + 1, total, cnt)

\* What deserialize::<max> returns for the buffer m, run in one go.
Returned(m, max) ==
    LET total == ReadLE(m, 0, SizeOfU64)
        cnt == Processed(total, max)
        o == Walk(m, SizeOfU64, 0, total, cnt)
        len == ReadLE(m, o, SizeOfU64)
    IN  [program_id |-> o + SizeOfU64 + len,
         count |-> cnt,
         data |-> o + SizeOfU64,
         data_len |-> len]

Deserialize ==
    \/ DeserializeEnter
    \/ FirstLoopAccount
    \/ FirstLoopDuplicate
    \/ SecondLoopAccount
    \/ SecondLoopDuplicate
    \/ DeserializeReturn

----------------------------------------------------------------------------
(* u8 arithmetic on the borrow state.                                      *)

RECURSIVE BitAnd(_, _)
BitAnd(a, b) ==
    IF a = 0 \/ b = 0 THEN 0
    ELSE (a % 2) * (b % 2) + 2 * BitAnd(a \div 2, b \div 2)

BitOr(a, b) == a + b - BitAnd(a, b)

\* 1 << s
Shl1(s) == 2 ^ s

\* Wrapping u8 addition and subtraction (release build: no overflow checks).
AddU8(a, b) == (a + b) % 256
SubU8(a, b) == (a + 256 - b) % 256

LAMPORTS_SHIFT == 4
DATA_SHIFT == 0
LAMPORTS_MASK == 127
DATA_MASK == 247

Ok(bs) == [res |-> "Ok", state |-> bs]

\* Mutant: a refused request clears the borrow state.
BorrowFailed_Clears(bs) == [res |-> "AccountBorrowFailed", state |-> 0]

BorrowFailed(bs) == [res |-> "AccountBorrowFailed", state |-> bs]

\* Mutant: the count is added at the place of the data count.
BorrowLamports_LowNibble(bs) ==
    IF BitAnd(bs, 128) # 0 THEN BorrowFailed(bs)
    ELSE IF BitAnd(bs, 112) = 112 THEN BorrowFailed(bs)
    ELSE Ok(AddU8(bs, 1))

\* try_borrow_lamports: the result and the borrow state it leaves.
BorrowLamports(bs) ==
    IF BitAnd(bs, 128) # 0 THEN BorrowFailed(bs)
    ELSE IF BitAnd(bs, 112) = 112 THEN BorrowFailed(bs)
    ELSE Ok(AddU8(bs, Shl1(LAMPORTS_SHIFT)))

\* Mutant: only the exclusive bit is tested.
BorrowMutLamports_BitOnly(bs) ==
    IF BitAnd(bs, 128) # 0 THEN BorrowFailed(bs)
    ELSE Ok(BitOr(bs, 128))

\* try_borrow_mut_lamports
BorrowMutLamports(bs) ==
    IF BitAnd(bs, 240) # 0 THEN BorrowFailed(bs)
    ELSE Ok(BitOr(bs, 128))

\* Mutant: the test for 7 live read guards is missing.
BorrowData_NoLimit(bs) ==
    IF BitAnd(bs, 8) # 0 THEN BorrowFailed(bs)
    ELSE Ok(AddU8(bs, 1))

\* try_borrow_data
BorrowData(bs) ==
    IF BitAnd(bs, 8) # 0 THEN BorrowFailed(bs)
    ELSE IF BitAnd(bs, 7) = 7 THEN BorrowFailed(bs)
    ELSE Ok(AddU8(bs, 1))

\* Mutant: only the exclusive bit is tested, the read counter is not.
BorrowMutData_IgnoresReaders(bs) ==
    IF BitAnd(bs, 8) # 0 THEN BorrowFailed(bs)
    ELSE Ok(BitOr(bs, 8))

\* try_borrow_mut_data
BorrowMutData(bs) ==
    IF BitAnd(bs, 15) # 0 THEN BorrowFailed(bs)
    ELSE Ok(BitOr(bs, 8))

\* Mutant: dropping a read guard does not give the count back.
ReleaseRef_NoDecrement(bs, shift) == bs

\* Mutant: the count is taken from the data counter, whatever the guard.
ReleaseRef_LowNibble(bs, shift) == SubU8(bs, 1)

\* Drop for Ref
ReleaseRef(bs, shift) == SubU8(bs, Shl1(shift))

\* The `-=` of Drop for Ref on a count that is already 0: the u8 wraps in a
\* build without overflow checks and the program panics in one with them.
ReleaseRefOutcomes(bs, shift) ==
    {[state |-> ReleaseRef(bs, shift), pc |-> "user", res |-> "Ok"]}
        \cup (IF bs < Shl1(shift)
              THEN {[state |-> bs, pc |-> "panic", res |-> "panic"]}
              ELSE {})

\* Mutant: dropping a write guard leaves the exclusive bit set.
ReleaseRefMut_Keep(bs, mask) == bs

\* Mutant: dropping a write guard clears the whole borrow state.
ReleaseRefMut_ClearsAll(bs, mask) == 0

\* Drop for RefMut
ReleaseRefMut(bs, mask) == BitAnd(bs, mask)

\* The guards: where the borrow state lives, how to release it, what they
\* give access to.
\* `via` is the handle the guard was requested through; the program keeps
\* no such field, it is recorded for the statements about aliasing handles.
Ref(raw, shift, ptr, len, h) ==
    [kind |-> "Ref", state |-> raw + OffBorrowState, borrow |-> shift,
     value |-> ptr, len |-> len, via |-> h]
RefMut(raw, mask, ptr, len, h) ==
    [kind |-> "RefMut", state |-> raw + OffBorrowState, borrow |-> mask,
     value |-> ptr, len |-> len, via |-> h]

LamportsRef(m, raw, h) == Ref(raw, LAMPORTS_SHIFT, raw + OffLamports, SizeOfU64, h)
\* Mutant: the lamports write guard carries the mask of the data bit.
LamportsRefMut_DataMask(m, raw, h) == RefMut(raw, DATA_MASK, raw + OffLamports, SizeOfU64, h)

LamportsRefMut(m, raw, h) == RefMut(raw, LAMPORTS_MASK, raw + OffLamports, SizeOfU64, h)
DataRef(m, raw, h) == Ref(raw, DATA_SHIFT, DataPtr(raw), DataLen(m, raw), h)
DataRefMut(m, raw, h) == RefMut(raw, DATA_MASK, DataPtr(raw), DataLen(m, raw), h)

----------------------------------------------------------------------------
(* The instruction handler's calls on the handles it was given.            *)

Handles == 0..(ret.count - 1)

\* The last call made: through which handle, with which arguments (those of
\* realloc are kept), and what it returned.
Call(op, h, res) == [op |-> op, h |-> h, arg |-> <<>>, res |-> res]
ReallocCall(h, new_len, zero_init, res) ==
    [op |-> "realloc", h |-> h, arg |-> <<new_len, zero_init>>, res |-> res]

\* No call touches the handle array or deserialize's results.
UserUnchanged ==
    UNCHANGED <<host, accounts, pc, offset, i, total_accounts, count, ret, built>>

\* A checked request: r is its outcome on the record's borrow state, g the
\* guard it returns on success.
Request(op, h, r, g) ==
    /\ mem' = Write8(mem, accounts[h] + OffBorrowState, r.state)
    /\ guards' = IF r.res = "Ok" THEN guards (+) SetToBag({g}) ELSE guards
    /\ last' = Call(op, h, r.res)
    /\ UserUnchanged

TryBorrowLamports(h) ==
    /\ pc = "user"
    /\ Request("try_borrow_lamports", h,
               BorrowLamports(BorrowState(mem, accounts[h])),
               LamportsRef(mem, accounts[h], h))

TryBorrowMutLamports(h) ==
    /\ pc = "user"
    /\ Request("try_borrow_mut_lamports", h,
               BorrowMutLamports(BorrowState(mem, accounts[h])),
               LamportsRefMut(mem, accounts[h], h))

TryBorrowData(h) ==
    /\ pc = "user"
    /\ Request("try_borrow_data", h,
               BorrowData(BorrowState(mem, accounts[h])),
               DataRef(mem, accounts[h], h))

TryBorrowMutData(h) ==
    /\ pc = "user"
    /\ Request("try_borrow_mut_data", h,
               BorrowMutData(BorrowState(mem, accounts[h])),
               DataRefMut(mem, accounts[h], h))

\* A read guard goes out of scope.
DropRef(g) ==
    /\ pc = "user"
    /\ g.kind = "Ref"
    /\ \E out \in ReleaseRefOutcomes(Read8(mem, g.state), g.borrow) :
        /\ mem' = Write8(mem, g.state, out.state)
        /\ pc' = out.pc
        /\ last' = Call("drop_ref", g.via, out.res)
    /\ guards' = guards (-) SetToBag({g})
    /\ UNCHANGED <<host, accounts, offset, i, total_accounts, count, ret, built>>

\* A write guard goes out of scope.
DropRefMut(g) ==
    /\ pc = "user"
    /\ g.kind = "RefMut"
    /\ mem' = Write8(mem, g.state, ReleaseRefMut(Read8(mem, g.state), g.borrow))
    /\ guards' = guards (-) SetToBag({g})
    /\ last' = Call("drop_ref_mut", g.via, "Ok")
    /\ UserUnchanged

GuardCalls ==
    \/ \E h \in Handles : TryBorrowLamports(h)
    \/ \E h \in Handles : TryBorrowMutLamports(h)
    \/ \E h \in Handles : TryBorrowData(h)
    \/ \E h \in Handles : TryBorrowMutData(h)
    \/ \E g \in BagToSet(guards) : DropRef(g)
    \/ \E g \in BagToSet(guards) : DropRefMut(g)

----------------------------------------------------------------------------
(* realloc, assign and the unchecked accessors.                            *)

\* a.saturating_sub(b)
SatSub(a, b) == IF a > b THEN a - b ELSE 0

\* Lines 318-323: the growth from the original length is over the ceiling.
ReallocTooLarge(new_len, original_len) ==
    SatSub(new_len, original_len) > MAX_PERMITTED_DATA_INCREASE

\* Mutant: the length is written one word too low, over the lamports.
SetDataLen_WrongWord(m, data_ptr, new_len) == WriteLE(m, data_ptr - 16, SizeOfU64, new_len)

\* Mutant: the length is not written.
SetDataLen_Keep(m, data_ptr, new_len) == m

\* Lines 326-332: the length word 8 bytes before the data region.
SetDataLen(m, data_ptr, new_len) == WriteLE(m, data_ptr - 8, SizeOfU64, new_len)

\* Lines 334-339: where sol_memset is told to write, and how many bytes.
ZeroInitStart(data_ptr, original_len, current_len) == data_ptr + original_len
ZeroInitLen(new_len, current_len) == SatSub(new_len, current_len)

Outcome(res, m, p) == [res |-> res, mem |-> m, pc |-> p]

\* The end of the memory the runtime reserved for the data of the record at
\* raw: its serialized data and the growth reserve behind it.
ReserveEnd(raw) ==
    LET ks == {k \in 0..(Len(host.slots) - 1) :
                 host.slots[k + 1].dup = Uninit /\ SlotOffset(host, k) = raw}
    IN  IF ks = {} THEN raw
        ELSE LET k == CHOOSE x \in ks : TRUE
             IN  DataPtr(raw) + host.slots[k + 1].data_len + MAX_PERMITTED_DATA_INCREASE

\* The ways a zero_init can end once the new length is written (memory m,
\* the write guard g still held).  `data[original_len..]` panics when
\* original_len > new_len.  sol_memset is handed that slice and a byte count
\* that may exceed it (when current_len < original_len): it fills the bytes
\* it is told to.  A fill that runs past the record's reserve lands in what
\* follows it when the buffer is one mapped region and faults when the host
\* maps the accounts apart; past the end of the buffer it faults.
ZeroInit(m, g, new_len, original_len, current_len) ==
    LET n     == ZeroInitLen(new_len, current_len)
        start == ZeroInitStart(g.value, original_len, current_len)
        fill  == ZeroRange(m, start, n)
        done  == Write8(fill, g.state, ReleaseRefMut(Read8(fill, g.state), g.borrow))
    IN  IF n = 0
        THEN {Outcome("Ok", Write8(m, g.state, ReleaseRefMut(Read8(m, g.state), g.borrow)),
                      "user")}
        ELSE IF original_len > new_len THEN {Outcome("panic", m, "panic")}
        ELSE IF start + n <= ReserveEnd(g.state) THEN {Outcome("Ok", done, "user")}
        ELSE {Outcome("panic", m, "panic")}
                \cup (IF start + n <= BufferEnd(host) THEN {Outcome("Ok", done, "user")}
                      ELSE {})

\* realloc(new_len, zero_init) through handle h: its possible outcomes.
ReallocOutcomes(m, h, raw, new_len, zero_init) ==
    LET r == BorrowMutData(BorrowState(m, raw))
        m1 == Write8(m, raw + OffBorrowState, r.state)
        g == DataRefMut(m1, raw, h)
        current_len == g.len
        original_len == OriginalDataLen(m1, raw)
        released == Write8(m1, g.state, ReleaseRefMut(Read8(m1, g.state), g.borrow))
        m2 == SetDataLen(m1, g.value, new_len)
    IN  IF r.res # "Ok" THEN {Outcome(r.res, m, "user")}
        ELSE IF new_len = current_len THEN {Outcome("Ok", released, "user")}
        ELSE IF ReallocTooLarge(new_len, original_len)
             THEN {Outcome("InvalidRealloc", released, "user")}
        ELSE IF zero_init THEN ZeroInit(m2, g, new_len, original_len, current_len)
        ELSE {Outcome("Ok", Write8(m2, g.state, ReleaseRefMut(Read8(m2, g.state), g.borrow)),
                      "user")}

Realloc(h, new_len, zero_init) ==
    /\ pc = "user"
    /\ \E out \in ReallocOutcomes(mem, h, accounts[h], new_len, zero_init) :
        /\ mem' = out.mem
        /\ pc' = out.pc
        /\ last' = ReallocCall(h, new_len, zero_init, out.res)
    /\ UNCHANGED <<host, accounts, offset, i, total_accounts, count, ret, guards, built>>

\* Mutant: the address is written over the key.
Assign_OverKey(h, new_owner) ==
    /\ pc = "user"
    /\ mem' = WriteBytes(mem, accounts[h] + OffKey, new_owner)
    /\ last' = Call("assign", h, "Ok")
    /\ UNCHANGED guards
    /\ UserUnchanged

\* assign(new_owner)
Assign(h, new_owner) ==
    /\ pc = "user"
    /\ mem' = WriteBytes(mem, accounts[h] + OffOwner, new_owner)
    /\ last' = Call("assign", h, "Ok")
    /\ UNCHANGED guards
    /\ UserUnchanged

\* A plain reference handed to the caller: where it points, how many bytes.
Reference(ptr, len) == [kind |-> "reference", value |-> ptr, len |-> len]

\* unchecked_borrow_lamports()
UncheckedBorrowLamports(h) ==
    /\ pc = "user"
    /\ built' = Reference(accounts[h] + OffLamports, SizeOfU64)
    /\ last' = Call("unchecked_borrow_lamports", h, "Ok")
    /\ UNCHANGED <<host, mem, accounts, pc, offset, i, total_accounts, count, ret, guards>>

\* unchecked_borrow_data()
UncheckedBorrowData(h) ==
    /\ pc = "user"
    /\ built' = Reference(DataPtr(accounts[h]), DataLen(mem, accounts[h]))
    /\ last' = Call("unchecked_borrow_data", h, "Ok")
    /\ UNCHANGED <<host, mem, accounts, pc, offset, i, total_accounts, count, ret, guards>>

\* Mutant: the write takes the exclusive lamports bit and keeps it.
UncheckedSetLamports_TakesBit(h, v) ==
    /\ pc = "user"
    /\ mem' = Write8(WriteLE(mem, accounts[h] + OffLamports, SizeOfU64, v),
                     accounts[h] + OffBorrowState,
                     BitOr(BorrowState(mem, accounts[h]), 128))
    /\ last' = Call("unchecked_borrow_mut_lamports", h, "Ok")
    /\ UNCHANGED guards
    /\ UserUnchanged

\* *unchecked_borrow_mut_lamports() = v
UncheckedSetLamports(h, v) ==
    /\ pc = "user"
    /\ mem' = WriteLE(mem, accounts[h] + OffLamports, SizeOfU64, v)
    /\ last' = Call("unchecked_borrow_mut_lamports", h, "Ok")
    /\ UNCHANGED guards
    /\ UserUnchanged

\* unchecked_borrow_mut_data()[k] = b
UncheckedSetData(h, k, b) ==
    /\ pc = "user"
    /\ k < DataLen(mem, accounts[h])
    /\ mem' = Write8(mem, DataPtr(accounts[h]) + k, b)
    /\ last' = Call("unchecked_borrow_mut_data", h, "Ok")
    /\ UNCHANGED guards
    /\ UserUnchanged

\* The lengths realloc is called with, the values and places written.
ReallocLens(m, raw) ==
    {0, 5, DataLen(m, raw),
     OriginalDataLen(m, raw) + MAX_PERMITTED_DATA_INCREASE,
     OriginalDataLen(m, raw) + MAX_PERMITTED_DATA_INCREASE + 1,
     2 * MAX_PERMITTED_DATA_INCREASE}
NewOwners == {Pubkey(150)}
LamportValues == {5}
DataIndexes == {0, 4}
DataValues == {9}

\* Writes and reallocs through the handles, no guard involved.
AliasCalls ==
    \/ \E h \in Handles : \E n \in ReallocLens(mem, accounts[h]) : \E z \in BOOLEAN :
          Realloc(h, n, z)
    \/ \E h \in Handles : \E o \in NewOwners : Assign(h, o)
    \/ \E h \in Handles : \E v \in LamportValues : UncheckedSetLamports(h, v)
    \/ \E h \in Handles : \E k \in DataIndexes : \E b \in DataValues :
          UncheckedSetData(h, k, b)

\* The handler holds at most MaxHeld guards at a time.
MayHoldOneMore == BagCardinality(guards) < MaxHeld

\* Requests and releases of at most MaxConflict guards at a time.
HeldCalls ==
    \/ \E h \in Handles : BagCardinality(guards) < MaxConflict /\ TryBorrowLamports(h)
    \/ \E h \in Handles : BagCardinality(guards) < MaxConflict /\ TryBorrowMutLamports(h)
    \/ \E h \in Handles : BagCardinality(guards) < MaxConflict /\ TryBorrowData(h)
    \/ \E h \in Handles : BagCardinality(guards) < MaxConflict /\ TryBorrowMutData(h)
    \/ \E g \in BagToSet(guards) : DropRef(g)
    \/ \E g \in BagToSet(guards) : DropRefMut(g)

\* assign and the unchecked accessors.
UncheckedCalls ==
    \/ \E h \in Handles : \E o \in NewOwners : Assign(h, o)
    \/ \E h \in Handles : UncheckedBorrowLamports(h)
    \/ \E h \in Handles : \E v \in LamportValues : UncheckedSetLamports(h, v)
    \/ \E h \in Handles : UncheckedBorrowData(h)
    \/ \E h \in Handles : \E b \in DataValues : UncheckedSetData(h, 0, b)

\* Reallocs, between and under data guards.
ReallocCalls ==
    \/ \E h \in Handles : \E n \in ReallocLens(mem, accounts[h]) : \E z \in BOOLEAN :
          Realloc(h, n, z)
    \/ \E h \in Handles : MayHoldOneMore /\ TryBorrowData(h)
    \/ \E h \in Handles : MayHoldOneMore /\ TryBorrowMutData(h)
    \/ \E g \in BagToSet(guards) : DropRef(g)
    \/ \E g \in BagToSet(guards) : DropRefMut(g)

----------------------------------------------------------------------------
(* Cross-program invocation: the records the library hands to the runtime. *)
(* A pointer into the input buffer is the address it holds; a pointer to   *)
(* an array the caller built on its stack is the array.                    *)

\* system_program::ID, the address of 32 zero bytes.
SystemProgramId == [k \in 1..SizeOfPubkey |-> 0]

\* offset(ptr, o)
Offset(ptr, o) == ptr + o

\* From<&AccountInfo> for CAccountMeta
CAccountMeta_RawPubkey(m, raw) ==
    [pubkey |-> raw, is_writable |-> IsWritable(m, raw), is_signer |-> IsSigner(m, raw)]
CAccountMeta(m, raw) ==
    [pubkey |-> Offset(raw, 8),
     is_writable |-> IsWritable(m, raw),
     is_signer |-> IsSigner(m, raw)]

\* From<&AccountInfo> for CAccountInfo
CAccountInfo_AlwaysSigner(m, raw) ==
    [key |-> Offset(raw, 8), lamports |-> Offset(raw, 72), data_len |-> DataLen(m, raw),
     data |-> Offset(raw, 88), owner |-> Offset(raw, 40), rent_epoch |-> 0,
     is_signer |-> TRUE, is_writable |-> IsWritable(m, raw),
     executable |-> Executable(m, raw)]
CAccountInfo(m, raw) ==
    [key |-> Offset(raw, 8),
     lamports |-> Offset(raw, 72),
     data_len |-> DataLen(m, raw),
     data |-> Offset(raw, 88),
     owner |-> Offset(raw, 40),
     rent_epoch |-> 0,
     is_signer |-> IsSigner(m, raw),
     is_writable |-> IsWritable(m, raw),
     executable |-> Executable(m, raw)]

\* CInstruction for the system program
CInstruction(instruction_accounts, instruction_data) ==
    [program_id |-> SystemProgramId,
     accounts |-> instruction_accounts,
     accounts_len |-> Len(instruction_accounts),
     data |-> instruction_data,
     data_len |-> Len(instruction_data)]

\* arr[from..from + Len(src)].copy_from_slice(src), `from` 0-based
CopyFromSlice(arr, from, src) ==
    [k \in 1..Len(arr) |->
        IF k > from /\ k <= from + Len(src) THEN src[k - from] ELSE arr[k]]

\* [0; n]
Zeroed(n) == [k \in 1..n |-> 0]

\* sol_invoke_signed_c(instruction, account_infos, len, seeds, len)
SolInvokeSignedC(instruction, account_infos, signers_seeds) ==
    [kind |-> "sol_invoke_signed_c",
     instruction |-> instruction,
     account_infos |-> account_infos,
     account_infos_len |-> Len(account_infos),
     signers_seeds |-> signers_seeds,
     signers_seeds_len |-> Len(signers_seeds)]

\* transfer: the payload
TransferData_NoDiscriminator(amount) ==
    CopyFromSlice(Zeroed(12), 4, LEBytes(amount, SizeOfU64))
TransferData(amount) ==
    CopyFromSlice(CopyFromSlice(Zeroed(12), 0, <<2>>), 4, LEBytes(amount, SizeOfU64))

\* transfer: the call
TransferInvoke(m, from, recipient, amount) ==
    SolInvokeSignedC(
        CInstruction(<<CAccountMeta(m, from), CAccountMeta(m, recipient)>>,
                     TransferData(amount)),
        <<CAccountInfo(m, from), CAccountInfo(m, recipient)>>,
        <<>>)

\* _create_account_signed: the account descriptors of the instruction
CreateAccountMetas_Unforced(m, funder, account) ==
    <<CAccountMeta(m, funder), CAccountMeta(m, account)>>
CreateAccountMetas(m, funder, account) ==
    <<CAccountMeta(m, funder), [CAccountMeta(m, account) EXCEPT !.is_signer = TRUE]>>

\* _create_account_signed: the payload
CreateAccountData_SpaceFirst(lamports, space, owner) ==
    CopyFromSlice(
        CopyFromSlice(
            CopyFromSlice(Zeroed(52), 4, LEBytes(space, SizeOfU64)),
            12, LEBytes(lamports, SizeOfU64)),
        20, owner)
CreateAccountData(lamports, space, owner) ==
    CopyFromSlice(
        CopyFromSlice(
            CopyFromSlice(Zeroed(52), 4, LEBytes(lamports, SizeOfU64)),
            12, LEBytes(space, SizeOfU64)),
        20, owner)

\* _create_account_signed: the call
InnerCreateAccountSigned(m, funder, account, lamports, space, owner, signer) ==
    SolInvokeSignedC(
        CInstruction(CreateAccountMetas(m, funder, account),
                     CreateAccountData(lamports, space, owner)),
        <<CAccountInfo(m, funder), CAccountInfo(m, account)>>,
        signer)

\* A byte slice of the caller, &[u8]
Slice(ptr, len) == [ptr |-> ptr, len |-> len]

\* Mutant: the length where the address goes, and the reverse.
CSignerSeed_Swapped(seed) == [seed |-> seed.len, len |-> seed.ptr]

\* create_account_signed: the signer it builds from the seeds
CSignerSeed(seed) == [seed |-> seed.ptr, len |-> seed.len]
CSigner(signer_seeds) ==
    [seeds |-> [k \in 1..Len(signer_seeds) |-> CSignerSeed(signer_seeds[k])],
     len |-> Len(signer_seeds)]

\* The call and its arguments: the funder (or sender) first.
CpiCall(op, hf, ha, args) == [op |-> op, h |-> ha, arg |-> <<hf>> \o args, res |-> "Ok"]

\* The runtime's execution of the callee is not part of the library: the
\* step ends with the records the runtime is handed.
CpiUnchanged ==
    UNCHANGED <<host, mem, accounts, pc, offset, i, total_accounts, count, ret, guards>>

\* create_account(funder, account, lamports, space, owner)
CreateAccount(hf, ha, lamports, space, owner) ==
    /\ pc = "user"
    /\ built' = InnerCreateAccountSigned(mem, accounts[hf], accounts[ha],
                                         lamports, space, owner, <<>>)
    /\ last' = CpiCall("create_account", hf, ha, <<lamports, space, owner>>)
    /\ CpiUnchanged

\* create_account_signed(funder, account, lamports, space, owner, signer_seeds)
CreateAccountSigned(hf, ha, lamports, space, owner, signer_seeds) ==
    /\ pc = "user"
    /\ built' = InnerCreateAccountSigned(mem, accounts[hf], accounts[ha],
                                         lamports, space, owner,
                                         <<CSigner(signer_seeds)>>)
    /\ last' = CpiCall("create_account_signed", hf, ha,
                       <<lamports, space, owner, signer_seeds>>)
    /\ CpiUnchanged

\* transfer(from, recipient, amount)
Transfer(hf, ha, amount) ==
    /\ pc = "user"
    /\ built' = TransferInvoke(mem, accounts[hf], accounts[ha], amount)
    /\ last' = CpiCall("transfer", hf, ha, <<amount>>)
    /\ CpiUnchanged

\* crate::ID, the address the program declares as its own.
CrateId == Pubkey(200)

\* Option<&AccountInfo>; a reference into the slice is the index it refers to.
None == <<>>
Some(x) == <<x>>

\* The field of the account declared at `index`, optional or not.
AccountField(m, accs, index, optional) ==
    IF optional
    THEN IF Key(m, accs[index]) = CrateId THEN None ELSE Some(index)
    ELSE index

\* The Context a successful call returns, an error.
OkContext(fields) == [kind |-> "context", res |-> "Ok", accounts |-> fields]
ErrContext(e) == [kind |-> "context", res |-> e, accounts |-> <<>>]

\* context(accounts) as generated for an instruction that declares
\* Len(schema) accounts, schema[k] telling whether the k-th is optional;
\* accs[0..len - 1] is the slice.
ContextOf_Strict(m, accs, len, schema) ==
    IF len <= Len(schema) THEN ErrContext("NotEnoughAccountKeys")
    ELSE OkContext([k \in 1..Len(schema) |-> AccountField(m, accs, k - 1, schema[k])])
ContextOf(m, accs, len, schema) ==
    IF len < Len(schema) THEN ErrContext("NotEnoughAccountKeys")
    ELSE OkContext([k \in 1..Len(schema) |-> AccountField(m, accs, k - 1, schema[k])])

\* The handler builds the context of an instruction from the slice of
\* handles it was given.
Context(schema) ==
    /\ pc = "user"
    /\ built' = ContextOf(mem, accounts, ret.count, schema)
    /\ last' = [op |-> "context", h |-> Uninit, arg |-> <<schema>>, res |-> built'.res]
    /\ CpiUnchanged

\* The account lists an instruction can declare.
Schemas == UNION {[1..n -> BOOLEAN] : n \in 0..MaxDeclared}

ContextCalls == \E schema \in Schemas : Context(schema)

\* The arguments the calls are made with.
LamportArgs == {0, 66051}
SpaceArgs == {513}
OwnerArgs == {Pubkey(150)}
SeedLists == {<<>>, <<Slice(100000, 4), Slice(100004, 1)>>}

CpiCalls ==
    \/ \E hf, ha \in Handles : \E l \in LamportArgs, s \in SpaceArgs, o \in OwnerArgs :
          CreateAccount(hf, ha, l, s, o)
    \/ \E hf, ha \in Handles : \E l \in LamportArgs, s \in SpaceArgs, o \in OwnerArgs :
          \E sd \in SeedLists : CreateAccountSigned(hf, ha, l, s, o, sd)
    \/ \E hf, ha \in Handles : \E a \in LamportArgs : Transfer(hf, ha, a)

\* What the handler writes through its handles before a call.
CpiWrites ==
    \/ \E h \in Handles : \E o \in NewOwners : Assign(h, o)
    \/ \E h \in Handles : \E v \in LamportValues : UncheckedSetLamports(h, v)
    \/ \E h \in Handles : \E b \in DataValues : UncheckedSetData(h, 0, b)

----------------------------------------------------------------------------
(* Specifications.                                                         *)

\* deserialize alone, on every buffer of the bounds.
SpecDeser == InitDeser /\ [][Deserialize]_vars

\* Two handles on one record, and a list that MAX_ACCOUNTS = 1 cuts short
\* before a duplicate and a second record.
AliasHosts ==
    {h \in Hosts :
        /\ h.payload = <<>>
        /\ \/ h.slots = <<NonDupSlot(3, 0, 1), DupSlot(0)>> /\ h.MAX_ACCOUNTS = 2
           \/ /\ h.slots = <<NonDupSlot(3, 0, 1), DupSlot(0), NonDupSlot(20, 0, 1)>>
              /\ h.MAX_ACCOUNTS = 1}

InitBorrow == \E h \in AliasHosts : InitOn(h)

NextBorrow == Deserialize \/ GuardCalls

SpecBorrow == InitBorrow /\ [][NextBorrow]_vars

InitAlias == \E h \in AliasHosts : InitOn(h)

NextAlias == Deserialize \/ AliasCalls

SpecAlias == InitAlias /\ [][NextAlias]_vars

\* Reallocs and data guards on one record with one or two handles.
InitRealloc == \E h \in AliasHosts : InitOn(h)

NextRealloc == Deserialize \/ ReallocCalls

SpecRealloc == InitRealloc /\ [][NextRealloc]_vars

\* The same buffers, and one with a record whose data is followed by a
\* second record.
NeighbourHosts ==
    AliasHosts \cup
    {h \in Hosts :
        /\ h.payload = <<>>
        /\ h.slots = <<NonDupSlot(20, 0, 1), NonDupSlot(3, 1, 0)>>
        /\ h.MAX_ACCOUNTS = 2}

InitNeighbour == \E h \in NeighbourHosts : InitOn(h)

NextNeighbour == Deserialize \/ ReallocCalls

\* The same calls on two records that lie one behind the other.
SpecNeighbour == InitNeighbour /\ [][NextNeighbour]_vars

\* Two records with different flags, and the aliasing buffers.
CpiHosts ==
    AliasHosts \cup
    {h \in Hosts :
        /\ h.payload = <<>>
        /\ h.slots = <<NonDupSlot(3, 0, 1), NonDupSlot(3, 1, 0)>>
        /\ h.MAX_ACCOUNTS = 2}

InitCpi == \E h \in CpiHosts : InitOn(h)

NextCpi == Deserialize \/ CpiWrites \/ CpiCalls

\* Writes through the handles and calls of the system program.
SpecCpi == InitCpi /\ [][NextCpi]_vars

InitUnchecked == \E h \in AliasHosts : InitOn(h)

NextUnchecked == Deserialize \/ HeldCalls \/ UncheckedCalls

\* assign and the unchecked accessors, between and under guards.
SpecUnchecked == InitUnchecked /\ [][NextUnchecked]_vars

\* realloc with any length and either zero_init.
AnyRealloc ==
    \E h \in Handles : \E n \in ReallocLens(mem, accounts[h]) : \E z \in BOOLEAN :
        Realloc(h, n, z)

InitHeld == \E h \in AliasHosts : InitOn(h)

NextHeld == Deserialize \/ HeldCalls \/ AnyRealloc

\* Reallocs between and under guards of both resources.
SpecHeld == InitHeld /\ [][NextHeld]_vars

\* A slot for which the caller passed the program's own address.
ProgramSlot ==
    [dup |-> Uninit, data_len |-> 0, is_signer |-> 0, is_writable |-> 0,
     executable |-> 1, key |-> CrateId]

\* Up to two slots without data, and lists with the program's address in
\* the place of an account.
ContextHosts ==
    {h \in Hosts :
        /\ h.payload = <<>>
        /\ Len(h.slots) <= 2
        /\ \A k \in 1..Len(h.slots) : h.slots[k].data_len = 0}
    \cup
    {[slots |-> sl, payload |-> <<>>, MAX_ACCOUNTS |-> 2] :
        sl \in {<<ProgramSlot>>,
                <<NonDupSlot(0, 0, 1), ProgramSlot>>,
                <<ProgramSlot, DupSlot(0)>>}}

InitContext == \E h \in ContextHosts : InitOn(h)

NextContext == Deserialize \/ ContextCalls

\* The generated account lists over what deserialize returns.
SpecContext == InitContext /\ [][NextContext]_vars

----------------------------------------------------------------------------
(* What the guards that are live say about a record (from `guards`, not    *)
(* from the borrow state), and which record the runtime put behind a       *)
(* handle (from `host`, not from the handle array).                        *)

RECURSIVE SumCopies(_, _)
SumCopies(S, B) ==
    IF S = {} THEN 0
    ELSE LET g == CHOOSE x \in S : TRUE
         IN  CopiesIn(g, B) + SumCopies(S \ {g}, B)

Resources == {"lamports", "data"}
ShiftOf(res) == IF res = "lamports" THEN LAMPORTS_SHIFT ELSE DATA_SHIFT
MaskOf(res) == IF res = "lamports" THEN LAMPORTS_MASK ELSE DATA_MASK

ReadGuards(rec, res) ==
    {g \in BagToSet(guards) : g.kind = "Ref" /\ g.state = rec /\ g.borrow = ShiftOf(res)}
WriteGuards(rec, res) ==
    {g \in BagToSet(guards) : g.kind = "RefMut" /\ g.state = rec /\ g.borrow = MaskOf(res)}
Readers(rec, res) == SumCopies(ReadGuards(rec, res), guards)
Writers(rec, res) == SumCopies(WriteGuards(rec, res), guards)

HostRecords == {RecordAddr(host, k) : k \in 0..(Len(host.slots) - 1)}
Aliases(h1, h2) == RecordSlot(host, h1) = RecordSlot(host, h2)

SharedOp(res) == IF res = "lamports" THEN "try_borrow_lamports" ELSE "try_borrow_data"
ExclusiveOp(res) ==
    IF res = "lamports" THEN "try_borrow_mut_lamports" ELSE "try_borrow_mut_data"

\* The step is the request `op` for resource res through handle h.
RequestStep(op, res, h) ==
    IF op = SharedOp(res)
    THEN IF res = "lamports" THEN TryBorrowLamports(h) ELSE TryBorrowData(h)
    ELSE IF res = "lamports" THEN TryBorrowMutLamports(h) ELSE TryBorrowMutData(h)

----------------------------------------------------------------------------
(* Claims.                                                                 *)

\* C1: in every state reached by guard requests and releases, and for each
\* resource of each record separately: at most one write guard is live, a
\* live write guard is the only live guard, and at most 7 read guards are live.
C1_GuardExclusion ==
    \A rec \in HostRecords : \A res \in Resources :
        /\ Writers(rec, res) <= 1
        /\ Writers(rec, res) = 1 => Readers(rec, res) = 0
        /\ Readers(rec, res) <= 7

\* C1 witness: 7 lamports read guards and a data write guard are live on one
\* record and a further request has just been refused.
C1_Witness ==
    \E rec \in HostRecords :
        /\ Readers(rec, "lamports") = 7
        /\ Writers(rec, "data") = 1
        /\ last.op = "try_borrow_data"
        /\ last.res = "AccountBorrowFailed"

\* C2: an exclusive request (data or lamports) is refused with
\* AccountBorrowFailed while a read guard of that resource is live on the
\* record, and is granted when no guard of that resource is live.
C2_ExclusiveAfterShared ==
    [][\A h \in Handles : \A res \in Resources :
          RequestStep(ExclusiveOp(res), res, h) =>
            LET rec == RecordAddr(host, h) IN
            /\ Readers(rec, res) >= 1 => last'.res = "AccountBorrowFailed"
            /\ (Readers(rec, res) = 0 /\ Writers(rec, res) = 0) =>
                 /\ last'.res = "Ok"
                 /\ guards' # guards]_vars

\* C2 witness: the exclusive data request has just been granted on a record
\* whose borrow state was used before (a read guard of the other resource
\* is still live, none of the data).
C2_Witness ==
    \E rec \in HostRecords :
        /\ last.op = "try_borrow_mut_data"
        /\ last.res = "Ok"
        /\ Writers(rec, "data") = 1
        /\ Readers(rec, "lamports") >= 1

\* C3: with no write guard live, a shared request is granted exactly when
\* fewer than 7 read guards of that resource are live on the record, through
\* whatever handles they were taken: the first 7 succeed, the 8th is refused,
\* and after a release the next one succeeds.
C3_SevenShared ==
    [][\A h \in Handles : \A res \in Resources :
          RequestStep(SharedOp(res), res, h) =>
            LET rec == RecordAddr(host, h) IN
            Writers(rec, res) = 0 =>
              /\ Readers(rec, res) < 7 =>
                   /\ last'.res = "Ok"
                   /\ Readers(rec, res)' = Readers(rec, res) + 1
              /\ Readers(rec, res) = 7 =>
                   /\ last'.res = "AccountBorrowFailed"
                   /\ guards' = guards]_vars

\* C3 witness: 7 read guards of the data, taken through both handles, are
\* live and the 8th request has just been refused.
C3_Witness ==
    \E rec \in HostRecords :
        /\ Readers(rec, "data") = 7
        /\ {g.via : g \in ReadGuards(rec, "data")} = {0, 1}
        /\ last.op = "try_borrow_data"
        /\ last.res = "AccountBorrowFailed"

\* C4: a guard taken through one handle binds the requests made through
\* another handle of the same record: while a write guard taken through h1 is
\* live every request for that resource through h2 is refused, and while a
\* read guard taken through h1 is live the exclusive request through h2 is
\* refused.
C4_AliasesShareGrants ==
    [][\A h2 \in Handles : \A res \in Resources : \A g \in BagToSet(guards) :
          (/\ g.via # h2
           /\ Aliases(g.via, h2)
           /\ g.borrow = (IF g.kind = "Ref" THEN ShiftOf(res) ELSE MaskOf(res)))
          =>
          /\ RequestStep(ExclusiveOp(res), res, h2) => last'.res = "AccountBorrowFailed"
          /\ (g.kind = "RefMut" /\ RequestStep(SharedOp(res), res, h2))
                => last'.res = "AccountBorrowFailed"]_vars

\* C4 witness: a data write guard taken through handle 0 is live and the
\* shared data request through handle 1, its duplicate, has been refused.
C4_Witness ==
    /\ \E g \in BagToSet(guards) : g.kind = "RefMut" /\ g.borrow = DATA_MASK /\ g.via = 0
    /\ last.op = "try_borrow_data"
    /\ last.h = 1
    /\ last.res = "AccountBorrowFailed"

----------------------------------------------------------------------------
(* Duplicate slots, writes and reallocs through aliasing handles.          *)

\* The length the runtime serialized for the record behind handle h.
SerializedLen(h) == host.slots[RecordSlot(host, h) + 1].data_len

\* C5: the handle of a duplicate slot i with marker j (j < i < count) holds
\* the record address of the handle of slot j, and a write of the owner, the
\* lamports, a data byte or the data length through a handle is what every
\* handle aliasing it reads afterwards.
C5_DuplicateSharesRecord ==
    /\ [](pc = "user" =>
            \A h \in Handles :
                host.slots[h + 1].dup # Uninit =>
                    /\ host.slots[h + 1].dup < h
                    /\ accounts[h] = accounts[host.slots[h + 1].dup])
    /\ [][\A h \in Handles : \A h2 \in Handles :
            Aliases(h, h2) =>
              /\ \A o \in NewOwners :
                    (last'.op = "assign" /\ Assign(h, o)) =>
                        Owner(mem', accounts[h2]) = o
              /\ \A v \in LamportValues :
                    (last'.op = "unchecked_borrow_mut_lamports"
                        /\ UncheckedSetLamports(h, v)) =>
                        Lamports(mem', accounts[h2]) = v
              /\ \A k \in DataIndexes : \A b \in DataValues :
                    (last'.op = "unchecked_borrow_mut_data"
                        /\ UncheckedSetData(h, k, b)) =>
                        /\ k < DataLen(mem', accounts[h2])
                        /\ Read8(mem', DataPtr(accounts[h2]) + k) = b
              /\ (/\ last'.op = "realloc"
                  /\ last'.res = "Ok"
                  /\ Realloc(h, last'.arg[1], last'.arg[2])) =>
                        DataLen(mem', accounts[h2]) = last'.arg[1]]_vars

\* C5 witness: the lamports were just written through the handle of the
\* duplicate slot and the handle of the original slot reads the new value.
C5_Witness ==
    /\ pc = "user"
    /\ ret.count = 2
    /\ host.slots[2].dup = 0
    /\ last.op = "unchecked_borrow_mut_lamports"
    /\ last.h = 1
    /\ \E v \in LamportValues : Lamports(mem, accounts[0]) = v

----------------------------------------------------------------------------
(* What deserialize returns.                                               *)

NoDuplicates(h) == \A k \in 1..Len(h.slots) : h.slots[k].dup = Uninit

\* C6: for a buffer of N non-duplicate accounts, N <= MAX_ACCOUNTS (N = 0
\* included), deserialize returns count = N; handle k points at the k-th
\* serialized record, so its key, owner, flags, lamports, data length and
\* data are the serialized ones; the payload returned is the length-prefixed
\* bytes after the last account and the program id the 32 bytes after it.
C6_AllHandles ==
    (pc = "user" /\ NoDuplicates(host) /\ Len(host.slots) <= host.MAX_ACCOUNTS) =>
        /\ ret.count = Len(host.slots)
        /\ \A k \in 0..(Len(host.slots) - 1) :
            LET s == host.slots[k + 1]
                raw == accounts[k]
            IN  /\ raw = SlotOffset(host, k)
                /\ Key(mem, raw) = Pubkey(k + 1)
                /\ Owner(mem, raw) = Pubkey(100 + k)
                /\ IsSigner(mem, raw) = (s.is_signer = 1)
                /\ IsWritable(mem, raw) = (s.is_writable = 1)
                /\ Executable(mem, raw) = (s.executable = 1)
                /\ Lamports(mem, raw) = 1000 + k
                /\ DataLen(mem, raw) = s.data_len
                /\ Data(mem, raw) = SlotData(k, s.data_len)
        /\ ret.data = PayloadOffset(host)
        /\ ret.data_len = Len(host.payload)
        /\ ReadBytes(mem, ret.data, ret.data_len) = host.payload
        /\ ret.program_id = ProgramIdOffset(host)
        /\ ReadBytes(mem, ret.program_id, SizeOfPubkey) = Pubkey(200)

\* C6 witness: deserialize has returned for a buffer that fills the handle
\* array with distinct accounts and carries a payload.
C6_Witness ==
    /\ pc = "user"
    /\ NoDuplicates(host)
    /\ Len(host.slots) = host.MAX_ACCOUNTS
    /\ ret.count >= 2
    /\ host.slots[1].data_len # host.slots[2].data_len
    /\ ret.data_len = 1

\* C7: for a buffer with more slots than MAX_ACCOUNTS, deserialize returns
\* count = MAX_ACCOUNTS, writes no handle slot once MAX_ACCOUNTS are written,
\* walks every remaining slot, and returns the payload and the program id it
\* returns for the same buffer with any larger MAX_ACCOUNTS.
C7_TruncatedList ==
    /\ [](pc = "user" /\ Len(host.slots) > host.MAX_ACCOUNTS =>
            /\ ret.count = host.MAX_ACCOUNTS
            /\ i = Len(host.slots)
            /\ LET input == Serialize(host)
               IN  /\ Read8(input, 0) = total_accounts
                   /\ \A max \in (host.MAX_ACCOUNTS + 1)..(MaxSlots + 1) :
                        LET r == Returned(input, max)
                        IN  /\ ret.data = r.data
                            /\ ret.data_len = r.data_len
                            /\ ret.program_id = r.program_id)
    /\ [][i >= host.MAX_ACCOUNTS => accounts' = accounts]_vars

\* C7 witness: deserialize has returned for a buffer with a payload whose
\* slots beyond MAX_ACCOUNTS hold an account with data and a duplicate.
C7_Witness ==
    /\ pc = "user"
    /\ host.MAX_ACCOUNTS >= 1
    /\ Len(host.payload) = 1
    /\ \E k \in (host.MAX_ACCOUNTS + 1)..Len(host.slots) :
          host.slots[k].dup = Uninit /\ host.slots[k].data_len = 3
    /\ \E k \in (host.MAX_ACCOUNTS + 1)..Len(host.slots) : host.slots[k].dup # Uninit

\* C8: when deserialize returns, the borrow state of the record behind every
\* returned handle is 0; a record's borrow state is written once, from the
\* marker to 0, at the record's own non-duplicate slot, and the step over a
\* duplicate slot writes nothing.
C8_BorrowStateReset ==
    /\ [](pc = "user" => \A k \in Handles : BorrowState(mem, accounts[k]) = 0)
    /\ [][\A rec \in HostRecords :
            BorrowState(mem', rec) # BorrowState(mem, rec) =>
                /\ pc = "scan"
                /\ i < count
                /\ host.slots[i + 1].dup = Uninit
                /\ rec = SlotOffset(host, i)
                /\ BorrowState(mem, rec) = NON_DUP_MARKER
                /\ BorrowState(mem', rec) = 0]_vars
    /\ [][(pc = "scan" /\ i < Len(host.slots) /\ host.slots[i + 1].dup # Uninit) =>
            mem' = mem]_vars

\* C8 witness: deserialize has returned a handle made from a duplicate slot
\* and a handle of a second record.
C8_Witness ==
    /\ pc = "user"
    /\ ret.count = 3
    /\ host.slots[2].dup = 0
    /\ host.slots[3].dup = Uninit
    /\ BorrowState(mem, accounts[1]) = 0
    /\ BorrowState(mem, accounts[2]) = 0

----------------------------------------------------------------------------
(* realloc                                                                 *)

\* C9: a realloc through handle h with no data guard live on the record and
\* new_len more than MAX_PERMITTED_DATA_INCREASE over the original length
\* (the one in the record and the one the runtime serialized) returns
\* InvalidRealloc and leaves the record's data length and data bytes as
\* they were.
C9_ReallocTooLarge ==
    [][\A h \in Handles :
          LET rec == accounts[h]
              n == last'.arg[1]
          IN
          (/\ last'.op = "realloc"
           /\ Realloc(h, n, last'.arg[2])
           /\ Readers(rec, "data") = 0
           /\ Writers(rec, "data") = 0
           /\ n - OriginalDataLen(mem, rec) > MAX_PERMITTED_DATA_INCREASE
           /\ n - SerializedLen(h) > MAX_PERMITTED_DATA_INCREASE) =>
              /\ last'.res = "InvalidRealloc"
              /\ DataLen(mem', rec) = DataLen(mem, rec)
              /\ \A a \in DOMAIN mem \cup DOMAIN mem' :
                    (a >= DataPtr(rec) /\ a < DataPtr(rec) + DataLen(mem, rec)) =>
                        Read8(mem', a) = Read8(mem, a)]_vars

\* C9 witness: a realloc over the ceiling has just been refused on a record
\* no guard is live on.
C9_Witness ==
    /\ pc = "user"
    /\ last.op = "realloc"
    /\ last.res = "InvalidRealloc"
    /\ guards = EmptyBag

\* C10: a realloc that returns Ok leaves new_len in the data length of the
\* record, which every handle aliasing it reads and a data guard built from
\* it carries; the word realloc writes, 8 bytes before the data region, is
\* the record's data_len field; and a data guard granted right after a
\* successful realloc has the record's new length.
C10_ReallocSetsDataLen ==
    /\ [][\A h \in Handles :
            LET n == last'.arg[1] IN
            (last'.op = "realloc" /\ last'.res = "Ok" /\ Realloc(h, n, last'.arg[2])) =>
                \A h2 \in Handles :
                    Aliases(h, h2) =>
                        /\ DataLen(mem', accounts[h2]) = n
                        /\ DataRef(mem', accounts[h2], h2).len = n
                        /\ DataRefMut(mem', accounts[h2], h2).len = n
                        /\ DataPtr(accounts[h2]) - 8 = accounts[h2] + OffDataLen]_vars
    /\ [][\A h \in Handles :
            (/\ last.op = "realloc"
             /\ last.res = "Ok"
             /\ Aliases(h, last.h)
             /\ last'.res = "Ok"
             /\ TryBorrowData(h) \/ TryBorrowMutData(h)) =>
                \E g \in BagToSet(guards') :
                    /\ CopiesIn(g, guards') > CopiesIn(g, guards)
                    /\ g.via = h
                    /\ g.value = DataPtr(accounts[last.h])
                    /\ g.len = last.arg[1]]_vars

\* C10 witness: a read guard of the grown length, taken through the handle
\* of the original slot after a realloc to the ceiling, is live on a record
\* with two handles.
C10_Witness ==
    /\ pc = "user"
    /\ ret.count = 2
    /\ host.slots[2].dup = 0
    /\ last.op = "try_borrow_data"
    /\ last.res = "Ok"
    /\ \E g \in BagToSet(guards) :
          /\ g.kind = "Ref"
          /\ g.via = 0
          /\ g.len = SerializedLen(0) + MAX_PERMITTED_DATA_INCREASE

\* The data index of address a in the record at rec (negative before it).
DataIndex(rec, a) == a - DataPtr(rec)

\* C11: a realloc with zero_init that returns Ok and grows the data from
\* length c to new_len > c leaves zero in every byte at an index in
\* c .. new_len - 1 and changes no other byte of the buffer, the length word
\* apart.
C11_ZeroInitExact ==
    [][\A h \in Handles :
          LET rec == accounts[h]
              n == last'.arg[1]
              c == DataLen(mem, rec)
          IN
          (/\ last'.op = "realloc"
           /\ last'.res = "Ok"
           /\ last'.arg[2]
           /\ n > c
           /\ Realloc(h, n, TRUE)) =>
              \A a \in DOMAIN mem \cup DOMAIN mem' :
                  IF DataIndex(rec, a) >= c /\ DataIndex(rec, a) < n
                  THEN Read8(mem', a) = 0
                  ELSE (a < rec + OffDataLen \/ a >= rec + OffDataLen + SizeOfU64) =>
                          Read8(mem', a) = Read8(mem, a)]_vars

\* C11 witness: a zero_init growth from a length below the original one has
\* just returned Ok.
C11_Witness ==
    /\ pc = "user"
    /\ last.op = "realloc"
    /\ last.res = "Ok"
    /\ last.arg = <<5, TRUE>>
    /\ \E h \in Handles : DataLen(mem, accounts[h]) = 5 /\ SerializedLen(h) = 3

\* C12: whatever reallocs were made through the handles of a record, its
\* data length is at most the original length (the length the runtime
\* serialized the record with) plus MAX_PERMITTED_DATA_INCREASE.
C12_GrowthBounded ==
    pc = "user" =>
        \A h \in Handles :
            DataLen(mem, accounts[h]) <= SerializedLen(h) + MAX_PERMITTED_DATA_INCREASE

\* C12 witness: the record is at the ceiling, reached in two growths, and a
\* further growth by one byte has just been refused.
C12_Witness ==
    /\ pc = "user"
    /\ last.op = "realloc"
    /\ last.res = "InvalidRealloc"
    /\ \E h \in Handles :
          /\ DataLen(mem, accounts[h]) = SerializedLen(h) + MAX_PERMITTED_DATA_INCREASE
          /\ last.arg[1] = DataLen(mem, accounts[h]) + 1

\* C13: a realloc through a handle of a record on which a data guard (read
\* or write, taken through any handle of the record) is live returns
\* AccountBorrowFailed and changes no byte of the buffer, whatever new_len is.
C13_ReallocUnderGuard ==
    [][\A h \in Handles :
          LET rec == RecordAddr(host, h) IN
          (/\ last'.op = "realloc"
           /\ Readers(rec, "data") + Writers(rec, "data") >= 1
           /\ Realloc(h, last'.arg[1], last'.arg[2])) =>
              /\ last'.res = "AccountBorrowFailed"
              /\ mem' = mem]_vars

\* C13 witness: a realloc within the ceiling, made through the handle of a
\* duplicate slot while a read guard taken through the original slot is
\* live, has just been refused.
C13_Witness ==
    /\ pc = "user"
    /\ ret.count = 2
    /\ host.slots[2].dup = 0
    /\ last.op = "realloc"
    /\ last.h = 1
    /\ last.arg[1] = 5
    /\ last.res = "AccountBorrowFailed"
    /\ \E g \in BagToSet(guards) : g.kind = "Ref" /\ g.via = 0

----------------------------------------------------------------------------
(* Guard release.                                                          *)

\* The counter of read guards and the exclusive bit of a resource in the
\* borrow state bs.
ReadCount(bs, res) == (bs \div Shl1(ShiftOf(res))) % 8
ExclusiveBit(bs, res) == (bs \div Shl1(ShiftOf(res) + 3)) % 2

\* C14: once no guard of a record is live its borrow state is 0; the drop
\* of a read guard takes exactly one from its resource's counter and the
\* drop of a write guard clears exactly its resource's exclusive bit, each
\* leaving the rest of the borrow state as it was.
C14_ReleaseRestores ==
    /\ [](pc = "user" =>
            \A h \in Handles :
                LET rec == accounts[h] IN
                (\A res \in Resources : Readers(rec, res) + Writers(rec, res) = 0) =>
                    BorrowState(mem, rec) = 0)
    /\ [][\A g \in BagToSet(guards) : \A res \in Resources :
            LET bs == BorrowState(mem, g.state)
                bs2 == BorrowState(mem', g.state)
                other == CHOOSE r \in Resources : r # res
            IN  /\ (g.kind = "Ref" /\ g.borrow = ShiftOf(res) /\ DropRef(g)) =>
                      /\ ReadCount(bs2, res) = ReadCount(bs, res) - 1
                      /\ ExclusiveBit(bs2, res) = ExclusiveBit(bs, res)
                      /\ ReadCount(bs2, other) = ReadCount(bs, other)
                      /\ ExclusiveBit(bs2, other) = ExclusiveBit(bs, other)
                /\ (g.kind = "RefMut" /\ g.borrow = MaskOf(res) /\ DropRefMut(g)) =>
                      /\ ExclusiveBit(bs, res) = 1
                      /\ ExclusiveBit(bs2, res) = 0
                      /\ ReadCount(bs2, res) = ReadCount(bs, res)
                      /\ ReadCount(bs2, other) = ReadCount(bs, other)
                      /\ ExclusiveBit(bs2, other) = ExclusiveBit(bs, other)]_vars

\* C14 witness: the last guard of a record, a write guard, has just been
\* dropped after a request was refused, and the borrow state is 0.
C14_Witness ==
    /\ pc = "user"
    /\ guards = EmptyBag
    /\ last.op = "drop_ref_mut"
    /\ ret.count = 2
    /\ \A h \in Handles : BorrowState(mem, accounts[h]) = 0

----------------------------------------------------------------------------
(* Calls of the system program.                                            *)

\* The flags the runtime serialized for the record behind handle h.
SerializedSigner(h) == host.slots[RecordSlot(host, h) + 1].is_signer # 0
SerializedWritable(h) == host.slots[RecordSlot(host, h) + 1].is_writable # 0

CreateOps == {"create_account", "create_account_signed"}

\* The state follows a create-account call, a transfer.
AfterCreate == pc = "user" /\ last.op \in CreateOps
AfterTransfer == pc = "user" /\ last.op = "transfer"

\* The handles of the call: the funder (or sender), the second account.
First == last.arg[1]
Second == last.h

\* C15 as stated: in a create-account call, the CAccountInfo of the account
\* being created has is_signer = true, whatever the record's flag is.
C15_InfoSignerForced ==
    AfterCreate => built.account_infos[2].is_signer = TRUE

\* C15: in a create-account call, the CAccountInfo of the account being
\* created carries the record's own is_signer flag (its CAccountMeta alone
\* is set to true).
C15_InfoSignerOriginal ==
    AfterCreate => built.account_infos[2].is_signer = SerializedSigner(Second)

C15_Witness ==
    /\ AfterCreate
    /\ ~SerializedSigner(Second)
    /\ built.account_infos[2].is_signer = FALSE
    /\ built.instruction.accounts[2].is_signer = TRUE

\* C16: in a create-account call, the CAccountMeta of the account being
\* created has is_signer = true whatever the record's flag is; the funder's
\* signer flag and both writable flags are the records' own.
C16_MetaSignerForced ==
    AfterCreate =>
        LET metas == built.instruction.accounts
        IN  /\ metas[2].is_signer = TRUE
            /\ metas[2].is_writable = SerializedWritable(Second)
            /\ metas[1].is_signer = SerializedSigner(First)
            /\ metas[1].is_writable = SerializedWritable(First)

C16_Witness ==
    /\ AfterCreate
    /\ ~SerializedSigner(Second) /\ SerializedWritable(Second)
    /\ SerializedSigner(First) /\ ~SerializedWritable(First)
    /\ built.instruction.accounts[2].is_signer = TRUE
    /\ built.instruction.accounts[1].is_writable = FALSE

\* Byte k (0-based) of the little-endian encoding of v.
RECURSIVE ByteOf(_, _)
ByteOf(v, k) == IF k = 0 THEN v % 256 ELSE ByteOf(v \div 256, k - 1)

\* Bytes from..from + 7 (0-based) of `data` are v in little-endian.
HoldsLE(data, from, v) == \A k \in 0..7 : data[from + k + 1] = ByteOf(v, k)

\* The two descriptors are those of the records behind the call's handles,
\* in the order of the call.
ListsBoth(ins) ==
    /\ ins.accounts_len = 2
    /\ Len(ins.accounts) = 2
    /\ ins.accounts[1].pubkey = RecordAddr(host, First) + OffKey
    /\ ins.accounts[2].pubkey = RecordAddr(host, Second) + OffKey

\* C17: the create-account instruction targets the system program, lists
\* the funder and the new account in that order, and has a 52-byte payload:
\* bytes 0..4 zero, 4..12 lamports and 12..20 space in little-endian,
\* 20..52 the owner.
C17_CreateInstruction ==
    AfterCreate =>
        LET ins == built.instruction
            lamports == last.arg[2]
            space == last.arg[3]
            owner == last.arg[4]
        IN  /\ \A k \in 1..SizeOfPubkey : ins.program_id[k] = 0
            /\ ListsBoth(ins)
            /\ ins.data_len = 52
            /\ Len(ins.data) = 52
            /\ \A k \in 0..3 : ins.data[k + 1] = 0
            /\ HoldsLE(ins.data, 4, lamports)
            /\ HoldsLE(ins.data, 12, space)
            /\ \A k \in 0..31 : ins.data[20 + k + 1] = owner[k + 1]

C17_Witness ==
    /\ AfterCreate
    /\ First # Second
    /\ last.arg[2] = 66051
    /\ last.arg[3] = 513
    /\ SubSeq(built.instruction.data, 1, 21) =
          <<0, 0, 0, 0, 3, 2, 1, 0, 0, 0, 0, 0, 1, 2, 0, 0, 0, 0, 0, 0, 150>>

\* C18: the transfer instruction targets the system program, lists the
\* sender and the recipient in that order with the records' own writable
\* and signer flags, has a 12-byte payload (bytes 0..4 the discriminator 2,
\* 4..12 the amount, both little-endian) and goes with no signer.
C18_TransferInstruction ==
    AfterTransfer =>
        LET ins == built.instruction
            amount == last.arg[2]
        IN  /\ \A k \in 1..SizeOfPubkey : ins.program_id[k] = 0
            /\ ListsBoth(ins)
            /\ ins.accounts[1].is_signer = SerializedSigner(First)
            /\ ins.accounts[1].is_writable = SerializedWritable(First)
            /\ ins.accounts[2].is_signer = SerializedSigner(Second)
            /\ ins.accounts[2].is_writable = SerializedWritable(Second)
            /\ ins.data_len = 12
            /\ Len(ins.data) = 12
            /\ \A k \in 0..3 : ins.data[k + 1] = ByteOf(2, k)
            /\ HoldsLE(ins.data, 4, amount)
            /\ built.signers_seeds = <<>>
            /\ built.signers_seeds_len = 0

C18_Witness ==
    /\ AfterTransfer
    /\ First # Second
    /\ ~SerializedSigner(Second)
    /\ built.instruction.accounts[2].is_signer = FALSE
    /\ built.instruction.data = <<2, 0, 0, 0, 3, 2, 1, 0, 0, 0, 0, 0>>

\* The state follows a call of the system program.
AfterInvoke == AfterCreate \/ AfterTransfer

\* The handle the k-th account of the call was built from.
HandleOf(k) == IF k = 1 THEN First ELSE Second

\* C19: the addresses in the descriptors are those of the record's fields
\* (key, owner, lamports, and the data address of the data guards), and
\* what the runtime reads through them is what the handle reads, a value
\* written through the handle before the call included.
C19_DescriptorAddresses ==
    AfterInvoke =>
        \A k \in 1..2 :
            LET h == HandleOf(k)
                rec == RecordAddr(host, h)
                meta == built.instruction.accounts[k]
                info == built.account_infos[k]
            IN  /\ meta.pubkey = rec + OffKey
                /\ info.key = rec + OffKey
                /\ info.owner = rec + OffOwner
                /\ info.lamports = rec + OffLamports
                /\ info.data = DataRef(mem, accounts[h], h).value
                /\ info.data = DataRefMut(mem, accounts[h], h).value
                /\ ReadBytes(mem, info.key, SizeOfPubkey) = Key(mem, accounts[h])
                /\ ReadBytes(mem, info.owner, SizeOfPubkey) = Owner(mem, accounts[h])
                /\ ReadLE(mem, info.lamports, SizeOfU64) = Lamports(mem, accounts[h])
                /\ ReadBytes(mem, info.data, info.data_len) = Data(mem, accounts[h])

C19_Witness ==
    /\ AfterInvoke
    /\ First # Second
    /\ ReadBytes(mem, built.account_infos[1].owner, SizeOfPubkey) \in NewOwners
    /\ ReadLE(mem, built.account_infos[2].lamports, SizeOfU64) \in LamportValues
    /\ Read8(mem, built.account_infos[2].data) \in DataValues

----------------------------------------------------------------------------
(* The generated account lists.                                            *)

\* The address the runtime serialized for the record behind handle h.
SerializedKey(h) == SlotKey(host.slots[RecordSlot(host, h) + 1], RecordSlot(host, h))

AfterContext == pc = "user" /\ last.op = "context"

\* The schema of the call, and the number of accounts it declares.
Declared == last.arg[1]
Expected == Len(Declared)

\* The k-th declared account (1-based) is bound to accounts[k - 1].
Bound(k) ==
    IF Declared[k] THEN built.accounts[k] = Some(k - 1) ELSE built.accounts[k] = k - 1

\* The k-th declared account is optional and is passed as the program's id.
Omitted(k) == Declared[k] /\ SerializedKey(k - 1) = CrateId

\* C20 as stated: context(accounts) returns NotEnoughAccountKeys when fewer
\* than the declared accounts are given, and otherwise succeeds and binds
\* the k-th declared account to accounts[k], extras ignored.
C20_ContextBindsEvery ==
    AfterContext =>
        IF ret.count < Expected
        THEN built.res = "NotEnoughAccountKeys"
        ELSE /\ built.res = "Ok"
             /\ Len(built.accounts) = Expected
             /\ \A k \in 1..Expected : Bound(k)

\* C20: context(accounts) returns NotEnoughAccountKeys when fewer than the
\* declared accounts are given, and otherwise succeeds and binds the k-th
\* declared account to accounts[k], or to None when that account is declared
\* optional and the key of accounts[k] is the program's id; extras ignored.
C20_ContextBinds ==
    AfterContext =>
        IF ret.count < Expected
        THEN built.res = "NotEnoughAccountKeys"
        ELSE /\ built.res = "Ok"
             /\ Len(built.accounts) = Expected
             /\ \A k \in 1..Expected :
                    IF Omitted(k) THEN built.accounts[k] = None ELSE Bound(k)

C20_Witness ==
    /\ AfterContext
    /\ ret.count = 2
    /\ Declared = <<FALSE, TRUE>>
    /\ SerializedKey(1) = CrateId
    /\ built.res = "Ok"
    /\ built.accounts[1] = 0
    /\ built.accounts[2] = None

\* Fewer accounts than declared, and more.
C20_WitnessShort ==
    AfterContext /\ ret.count = 1 /\ Expected = 2 /\ built.res = "NotEnoughAccountKeys"
C20_WitnessExtra ==
    AfterContext /\ ret.count = 2 /\ Declared = <<TRUE>> /\ built.accounts = <<Some(0)>>

----------------------------------------------------------------------------
(* Requests and releases, read off the borrow state.                       *)

\* The step is a call of `op` through handle h.
CalledThrough(op, h) == last'.op = op /\ last'.h = h

\* C21: a shared request is refused with AccountBorrowFailed exactly when
\* the exclusive bit of its resource is set or the read counter of its
\* resource is 7; otherwise it is granted and the counter is one higher.
C21_SharedRequest ==
    [][\A h \in Handles : \A res \in Resources :
          (CalledThrough(SharedOp(res), h) /\ RequestStep(SharedOp(res), res, h)) =>
            LET bs == BorrowState(mem, accounts[h])
                bs2 == BorrowState(mem', accounts[h])
            IN  IF ExclusiveBit(bs, res) = 1 \/ ReadCount(bs, res) = 7
                THEN last'.res = "AccountBorrowFailed"
                ELSE /\ last'.res = "Ok"
                     /\ ReadCount(bs2, res) = ReadCount(bs, res) + 1
                     /\ ExclusiveBit(bs2, res) = 0]_vars

\* C21 witness: the 7th lamports read guard has been granted, the counter
\* stands at 7.
C21_Witness ==
    /\ pc = "user"
    /\ last.op = "try_borrow_lamports"
    /\ last.res = "Ok"
    /\ ReadCount(BorrowState(mem, accounts[last.h]), "lamports") = 7

\* C22: an exclusive request is refused with AccountBorrowFailed exactly
\* when the exclusive bit of its resource is set or the read counter of its
\* resource is not 0; otherwise it is granted, the bit is set and the
\* counter stays 0.
C22_ExclusiveRequest ==
    [][\A h \in Handles : \A res \in Resources :
          (CalledThrough(ExclusiveOp(res), h)
              /\ RequestStep(ExclusiveOp(res), res, h)) =>
            LET bs == BorrowState(mem, accounts[h])
                bs2 == BorrowState(mem', accounts[h])
            IN  IF ExclusiveBit(bs, res) = 1 \/ ReadCount(bs, res) # 0
                THEN last'.res = "AccountBorrowFailed"
                ELSE /\ last'.res = "Ok"
                     /\ ExclusiveBit(bs2, res) = 1
                     /\ ReadCount(bs2, res) = 0]_vars

\* C22 witness: the exclusive lamports request has been refused on a record
\* with one lamports read guard, and the exclusive bit is clear.
C22_Witness ==
    /\ pc = "user"
    /\ last.op = "try_borrow_mut_lamports"
    /\ last.res = "AccountBorrowFailed"
    /\ ReadCount(BorrowState(mem, accounts[last.h]), "lamports") = 1
    /\ ExclusiveBit(BorrowState(mem, accounts[last.h]), "lamports") = 0

----------------------------------------------------------------------------
(* The scan offset.                                                        *)

\* x rounded up to a multiple of n.
RoundUp(x, n) == ((x + n - 1) \div n) * n

\* The step scans slot i, in either loop.
ScansSlot == pc = "scan" /\ i' = i + 1

\* Where the scan is after a slot at o that holds an account of d data
\* bytes, with the padding going to a multiple of n.
AfterAccount(o, d, n) == RoundUp(o + SizeOfAccount + d + MAX_PERMITTED_DATA_INCREASE, n) + 8

\* The scan of slot i moves the offset past an account padded to a multiple
\* of n, past the 8 bytes of a duplicate.
ScanMoves(n) ==
    LET s == host.slots[i + 1]
    IN  IF s.dup = Uninit
        THEN offset' = AfterAccount(offset, s.data_len, n)
        ELSE offset' = offset + 8

\* C23 as stated: in both loops, a non-duplicate slot at scan offset o with
\* d data bytes moves the offset to o + header size + d + growth ceiling,
\* rounded up to a multiple of 16, plus 8; a duplicate slot moves it to o + 8.
C23_ScanOffset16 == [][ScansSlot => ScanMoves(16)]_vars

\* C23: in both loops, a non-duplicate slot at scan offset o with d data
\* bytes moves the offset to o + header size + d + growth ceiling, rounded up
\* to a multiple of 8, plus 8; a duplicate slot moves it to o + 8.
C23_ScanOffset8 == [][ScansSlot => ScanMoves(8)]_vars

\* C23 witness: the second loop has scanned an account of 3 data bytes; the
\* offset is at the multiple of 8, which is not the one a padding to 16
\* gives.
C23_Witness ==
    /\ pc = "scan"
    /\ i = 2
    /\ host.MAX_ACCOUNTS = 1
    /\ host.slots[1].dup = Uninit
    /\ host.slots[2].dup = Uninit
    /\ host.slots[2].data_len = 3
    /\ offset = AfterAccount(SlotOffset(host, 1), 3, 8)
    /\ offset # AfterAccount(SlotOffset(host, 1), 3, 16)

----------------------------------------------------------------------------
(* realloc to a length that is not larger.                                 *)

\* The step is realloc(n, z) through handle h.
ReallocStep(h) == last'.op = "realloc" /\ Realloc(h, last'.arg[1], last'.arg[2])

\* The first c data bytes of the record at rec are what they were.
DataKept(rec, c) == ReadBytes(mem', DataPtr(rec), c) = ReadBytes(mem, DataPtr(rec), c)

\* C24 as stated: a realloc to a length not larger than the current one,
\* with no data guard live on the record, returns Ok and changes neither
\* the data length nor a data byte.
C24_NotLargerIsNoop ==
    [][\A h \in Handles :
          LET rec == accounts[h]
              c == DataLen(mem, rec)
          IN  (/\ Readers(rec, "data") + Writers(rec, "data") = 0
               /\ ReallocStep(h)
               /\ last'.arg[1] <= c) =>
                  /\ last'.res = "Ok"
                  /\ DataLen(mem', rec) = c
                  /\ DataKept(rec, c)]_vars

\* C24: a realloc to the current length that is not refused with
\* AccountBorrowFailed returns Ok and changes neither the data length nor a
\* data byte; a realloc to a smaller length that returns Ok leaves the new
\* length in data_len and changes no data byte.
C24_SameLengthIsNoop ==
    [][\A h \in Handles :
          LET rec == accounts[h]
              c == DataLen(mem, rec)
              n == last'.arg[1]
          IN  (ReallocStep(h) /\ n <= c) =>
                  /\ (n = c /\ last'.res # "AccountBorrowFailed") =>
                        /\ last'.res = "Ok"
                        /\ DataLen(mem', rec) = c
                        /\ DataKept(rec, c)
                  /\ (n < c /\ last'.res = "Ok") =>
                        /\ DataLen(mem', rec) = n
                        /\ DataKept(rec, c)]_vars

\* C24 witness: a realloc from 3 bytes to 0 has returned Ok and the data
\* length is 0, the 3 bytes still in place.
C24_Witness ==
    /\ pc = "user"
    /\ last.op = "realloc"
    /\ last.res = "Ok"
    /\ last.arg[1] = 0
    /\ SerializedLen(last.h) = 3
    /\ DataLen(mem, accounts[last.h]) = 0
    /\ ReadBytes(mem, DataPtr(accounts[last.h]), 3) = SlotData(RecordSlot(host, last.h), 3)

----------------------------------------------------------------------------
(* assign and the unchecked accessors.                                     *)

\* Some guard is live on the record at rec.
Guarded(rec) == \E res \in Resources : Readers(rec, res) + Writers(rec, res) >= 1

\* C25: assign can be called and returns in every state of the handler,
\* whatever guards are live on the record; it leaves new_owner in the owner
\* field, read through every handle of the record, and leaves the borrow
\* state, the key, the lamports, the data length and the data as they were.
C25_AssignUnconditional ==
    /\ [](pc = "user" => \A h \in Handles : \A o \in NewOwners : ENABLED Assign(h, o))
    /\ [][\A h \in Handles : \A o \in NewOwners :
            (last'.op = "assign" /\ Assign(h, o)) =>
                LET rec == RecordAddr(host, h) IN
                /\ last'.res = "Ok"
                /\ guards' = guards
                /\ BorrowState(mem', rec) = BorrowState(mem, rec)
                /\ Key(mem', rec) = Key(mem, rec)
                /\ Lamports(mem', rec) = Lamports(mem, rec)
                /\ DataLen(mem', rec) = DataLen(mem, rec)
                /\ Data(mem', rec) = Data(mem, rec)
                /\ \A h2 \in Handles : Aliases(h, h2) => Owner(mem', accounts[h2]) = o]_vars

\* C25 witness: the owner has been assigned through one handle while write
\* guards of the data and of the lamports, taken through the other, are live.
C25_Witness ==
    /\ pc = "user"
    /\ last.op = "assign"
    /\ last.h = 1
    /\ Writers(RecordAddr(host, 1), "data") = 1
    /\ Writers(RecordAddr(host, 1), "lamports") = 1
    /\ \A g \in BagToSet(guards) : g.via = 0
    /\ Owner(mem, accounts[0]) \in NewOwners

UncheckedOps ==
    {"unchecked_borrow_lamports", "unchecked_borrow_mut_lamports",
     "unchecked_borrow_data", "unchecked_borrow_mut_data"}

\* What each checked request would answer on the borrow state bs.
Answers(bs) ==
    <<BorrowLamports(bs), BorrowMutLamports(bs), BorrowData(bs), BorrowMutData(bs)>>

\* C26: the unchecked accessors can be called and return in every state of
\* the handler, whatever guards are live; a call leaves the borrow state of
\* the record and the live guards as they were, and with them the answer of
\* every checked request.
C26_UncheckedAccess ==
    /\ [](pc = "user" =>
            \A h \in Handles :
                /\ ENABLED UncheckedBorrowLamports(h)
                /\ ENABLED UncheckedBorrowData(h)
                /\ \A v \in LamportValues : ENABLED UncheckedSetLamports(h, v)
                /\ \A b \in DataValues :
                      DataLen(mem, accounts[h]) > 0 => ENABLED UncheckedSetData(h, 0, b))
    /\ [][last'.op \in UncheckedOps =>
            /\ last'.res = "Ok"
            /\ guards' = guards
            /\ \A h \in Handles :
                LET rec == RecordAddr(host, h) IN
                /\ BorrowState(mem', rec) = BorrowState(mem, rec)
                /\ Answers(BorrowState(mem', rec)) = Answers(BorrowState(mem, rec))]_vars

\* C26 witness: a data byte has been written through the unchecked accessor
\* of one handle while a write guard of the data taken through the other is
\* live, and the borrow state still shows that guard alone.
C26_Witness ==
    /\ pc = "user"
    /\ last.op = "unchecked_borrow_mut_data"
    /\ last.h = 1
    /\ guards = SetToBag({DataRefMut(mem, accounts[0], 0)})
    /\ Read8(mem, DataPtr(accounts[0])) \in DataValues
    /\ BorrowState(mem, accounts[0]) = 8

----------------------------------------------------------------------------
(* The signer of a create-account call.                                    *)

\* C27: create_account_signed hands the runtime one signer, whose seed list
\* has as many entries as the caller gave seeds, the k-th carrying the
\* address and the length of the caller's k-th seed; create_account hands it
\* no signer.
C27_SignerSeeds ==
    /\ (pc = "user" /\ last.op = "create_account_signed") =>
          LET signer_seeds == last.arg[5] IN
          /\ built.signers_seeds_len = 1
          /\ Len(built.signers_seeds) = 1
          /\ built.signers_seeds[1].len = Len(signer_seeds)
          /\ Len(built.signers_seeds[1].seeds) = Len(signer_seeds)
          /\ \A k \in 1..Len(signer_seeds) :
                /\ built.signers_seeds[1].seeds[k].seed = signer_seeds[k].ptr
                /\ built.signers_seeds[1].seeds[k].len = signer_seeds[k].len
    /\ (pc = "user" /\ last.op = "create_account") =>
          /\ built.signers_seeds_len = 0
          /\ built.signers_seeds = <<>>

\* C27 witness: a call with two seeds of different lengths has been made.
C27_Witness ==
    /\ pc = "user"
    /\ last.op = "create_account_signed"
    /\ Len(last.arg[5]) = 2
    /\ built.signers_seeds[1].len = 2
    /\ built.signers_seeds[1].seeds[1].len = 4
    /\ built.signers_seeds[1].seeds[2].len = 1
    /\ built.signers_seeds[1].seeds[2].seed = built.signers_seeds[1].seeds[1].seed + 4

----------------------------------------------------------------------------
(* The borrow state as the encoding of the live guards.                    *)

\* The byte that encodes the guards live on the record at rec.
Encoding(rec) ==
    128 * Writers(rec, "lamports") + 16 * Readers(rec, "lamports")
        + 8 * Writers(rec, "data") + Readers(rec, "data")

\* C28: at every step of the handler's requests and releases, the borrow
\* state of a record is the encoding of its live guards: bit 7 a lamports
\* write guard, bits 4-6 the number of lamports read guards, bit 3 a data
\* write guard, bits 0-2 the number of data read guards.
C28_BorrowStateEncodes ==
    pc = "user" =>
        \A h \in Handles :
            LET rec == RecordAddr(host, h)
                bs == BorrowState(mem, accounts[h])
            IN  /\ bs = Encoding(rec)
                /\ \A res \in Resources :
                    /\ ExclusiveBit(bs, res) = Writers(rec, res)
                    /\ ReadCount(bs, res) = Readers(rec, res)

\* C28 witness: 7 read guards of the lamports and a write guard of the data
\* are live: the borrow state is 0111 1000.
C28_Witness ==
    /\ pc = "user"
    /\ Readers(RecordAddr(host, 0), "lamports") = 7
    /\ Writers(RecordAddr(host, 0), "data") = 1
    /\ BorrowState(mem, accounts[0]) = 120

\* The four bits of resource res in the borrow state bs.
Nibble(bs, res) == (bs \div Shl1(ShiftOf(res))) % 16

Other(res) == CHOOSE r \in Resources : r # res

RequestOps(res) == {SharedOp(res), ExclusiveOp(res)}

\* The step releases a guard of resource res.
Releases(res) ==
    \E g \in BagToSet(guards) :
        /\ CopiesIn(g, guards') < CopiesIn(g, guards)
        /\ g.borrow = (IF g.kind = "Ref" THEN ShiftOf(res) ELSE MaskOf(res))

AllRequestOps == RequestOps("lamports") \cup RequestOps("data")

\* C30: a request refused with AccountBorrowFailed leaves the borrow state
\* as it was and the live guards as they were: no guard is created for it.
C30_RefusalChangesNothing ==
    [][(last'.op \in AllRequestOps /\ last'.res = "AccountBorrowFailed") =>
          /\ guards' = guards
          /\ mem' = mem]_vars

\* C30 witness: the shared lamports request has been refused under a live
\* lamports write guard, which is still the only guard and still encoded.
C30_Witness ==
    /\ pc = "user"
    /\ last.op = "try_borrow_lamports"
    /\ last.res = "AccountBorrowFailed"
    /\ guards = SetToBag({LamportsRefMut(mem, accounts[0], 0)})
    /\ BorrowState(mem, accounts[0]) = 128

----------------------------------------------------------------------------
(* realloc: its own guard, and the bytes it keeps.                         *)

\* C31: a realloc that returns (with the length unchanged, InvalidRealloc,
\* Ok or a refusal) leaves the borrow state of its record and the live
\* guards as they were, the lamports guards among them; a data request made
\* right after a realloc on a record with no data guard live is granted.
C31_ReallocReleasesGuard ==
    /\ [][\A h \in Handles :
            (ReallocStep(h) /\ pc' = "user") =>
                /\ BorrowState(mem', accounts[h]) = BorrowState(mem, accounts[h])
                /\ guards' = guards]_vars
    /\ [][(/\ last.op = "realloc"
           /\ last'.op \in RequestOps("data")
           /\ Aliases(last.h, last'.h)
           /\ Readers(RecordAddr(host, last.h), "data")
                + Writers(RecordAddr(host, last.h), "data") = 0) =>
              last'.res = "Ok"]_vars

\* C31 witness: a data read guard has been granted on a record that realloc
\* grew to the ceiling, with a lamports write guard live and still encoded.
C31_Witness ==
    /\ pc = "user"
    /\ last.op = "try_borrow_data"
    /\ last.res = "Ok"
    /\ Writers(RecordAddr(host, last.h), "lamports") = 1
    /\ Readers(RecordAddr(host, last.h), "data") = 1
    /\ BorrowState(mem, accounts[last.h]) = 129
    /\ DataLen(mem, accounts[last.h]) = SerializedLen(last.h) + MAX_PERMITTED_DATA_INCREASE

\* C32: a realloc that returns Ok, from any length c to any length n and
\* with either zero_init, leaves every data byte at an index below min(c, n)
\* as it was.
C32_ReallocKeepsContents ==
    [][\A h \in Handles :
          LET rec == accounts[h]
              n == last'.arg[1]
              c == DataLen(mem, rec)
              kept == IF c < n THEN c ELSE n
          IN
          (/\ last'.op = "realloc"
           /\ last'.res = "Ok"
           /\ Realloc(h, n, last'.arg[2])) =>
              \A a \in DOMAIN mem \cup DOMAIN mem' :
                  (DataIndex(rec, a) >= 0 /\ DataIndex(rec, a) < kept) =>
                      Read8(mem', a) = Read8(mem, a)]_vars

\* C32 witness: a zero_init realloc has returned Ok after growing a record
\* that was already longer than its original length to the ceiling.
C32_Witness ==
    /\ pc = "user"
    /\ last.op = "realloc"
    /\ last.res = "Ok"
    /\ last.arg[2]
    /\ SerializedLen(last.h) = 3
    /\ last.arg[1] = SerializedLen(last.h) + MAX_PERMITTED_DATA_INCREASE
    /\ DataLen(mem, accounts[last.h]) = last.arg[1]
    /\ Read8(mem, DataPtr(accounts[last.h]) + 4) = 0

====
